---- MODULE Spec2Model ----
(***************************************************************************)
(* Model of backend/danswer/server/manage/administrative.py: the admin     *)
(* endpoints validate_existing_genai_api_key (cooldown gate),              *)
(* create_deletion_attempt_for_connector_id (deletion admission) and       *)
(* deactivate_user / activate_user.                                        *)
(*                                                                         *)
(* Time is counted in integer clock ticks.  The key-value store holds      *)
(* curr_time.timestamp() and the handler reads it back through             *)
(* datetime.fromtimestamp; both work at microsecond resolution, where a    *)
(* double represents every present-day instant exactly, so the stored tick *)
(* is the tick read back.                                                  *)
(***************************************************************************)
EXTENDS Integers, Sequences, FiniteSets, TLC

\* ---------------------------------------------------------------- bounds
MaxTime == 3
MaxFreq == 2
MaxFiles == 3
MaxQueue == 2

\* ------------------------------------------------------------- constants
NoRecord == -1
NoError == ""
NoRetry == -2

\* two requests that may be served concurrently
Callers == {"r1", "r2"}
Times == 0..MaxTime
LLMErrors == {"Error from LLM"}
NoResp == [status |-> 0, detail |-> ""]

VARIABLES
    now,            \* wall clock, datetime.now(tz=timezone.utc)
    kv_store,       \* value under GEN_AI_KEY_CHECK_TIME, NoRecord when the key is missing
    check_freq_sec, \* GENERATIVE_MODEL_ACCESS_CHECK_FREQ
    gpc,            \* position of each concurrent request in validate_existing_genai_api_key
    curr_time,      \* the handler's local curr_time
    last_check,     \* the handler's local last_check (NoRecord: ConfigNotFoundError)
    gate_resp,      \* response of the request's last completed call
    call_time,      \* history: the clock value the call read on entry
    invoked_at,     \* history: clock value when get_default_llm was called, NoRecord if it was not
    last_success,   \* history: latest timestamp any successful validation recorded
    prior_success,  \* history: last_success as it was when the call began
    test_result,    \* history: what the validation of the call came to
    retry           \* history: record the request's previous call loaded, if that call failed

gateVars == <<now, kv_store, check_freq_sec, gpc, curr_time, last_check,
              gate_resp, call_time, invoked_at, last_success, prior_success,
              test_result, retry>>

VARIABLES
    dpc,            \* position of the request in create_deletion_attempt_for_connector_id
    del_req,        \* connector_credential_pair_identifier of the request
    cc_pair,        \* the handler's local cc_pair (NoPair: None)
    file_idx,       \* position of the for loop over file_locations
    del_resp,       \* response of the last completed request
    calls,          \* history: collaborator calls made by the request, in order
    queue_at_start, \* history: length of the task queue when the request began
    policy_reason,  \* history: what check_deletion_attempt_is_allowed returned
    index_attempts, \* per connector, state of its indexing attempts on both indices
    task_queue,     \* jobs accepted by cleanup_connector_credential_pair_task.apply_async
    file_store      \* files held by the default file store

delVars == <<dpc, del_req, cc_pair, file_idx, del_resp, calls, queue_at_start,
             policy_reason, index_attempts, task_queue, file_store>>

VARIABLES
    users,          \* user table: per email "absent", "active" or "inactive"
    user_resp       \* last completed user request and its response

userVars == <<users, user_resp>>

vars == <<gateVars, delVars, userVars>>

Max(a, b) == IF a >= b THEN a ELSE b

\* the comparison with the window one tick short
InCooldownShort(curr, last, freq) == curr - last < freq - 1

\* line 133: curr_time - last_check < check_freq_sec
InCooldown(curr, last, freq) == curr - last < freq

\* the early return also taken while another request is validating
ShouldSkipOrBusy(p, stored) ==
    \/ stored # NoRecord /\ curr_time[p] - stored < check_freq_sec
    \/ \E q \in Callers \ {p} : gpc[q] \in {"get_llm", "test_llm", "mark", "store"}

\* lines 128-137: the early return is taken only when a record exists and
\* the cooldown has not elapsed
ShouldSkip(p, stored) ==
    /\ stored # NoRecord
    /\ InCooldown(curr_time[p], stored, check_freq_sec)

\* the error of test_llm ignored
TestFailedNever(error) == FALSE

\* line 145: if error
TestFailed(error) == error # NoError

\* the time read on entry written instead of the re-read clock
MarkedValueAtEntry(p) == call_time[p]

\* line 150: the value written is the local curr_time, re-read at line 149
MarkedValue(p) == curr_time[p]

GateInit ==
    /\ now = 0
    /\ kv_store \in {NoRecord, 0}
    /\ check_freq_sec \in 1..MaxFreq
    /\ gpc = [p \in Callers |-> "idle"]
    /\ curr_time = [p \in Callers |-> 0]
    /\ last_check = [p \in Callers |-> NoRecord]
    /\ gate_resp = [p \in Callers |-> NoResp]
    /\ call_time = [p \in Callers |-> 0]
    /\ invoked_at = [p \in Callers |-> NoRecord]
    /\ last_success = kv_store
    /\ prior_success = [p \in Callers |-> NoRecord]
    /\ test_result = [p \in Callers |-> "none"]
    /\ retry = [p \in Callers |-> NoRetry]

\* the clock advances
Tick ==
    /\ now < MaxTime
    /\ now' = now + 1
    /\ UNCHANGED <<kv_store, check_freq_sec, gpc, curr_time, last_check,
                   gate_resp, call_time, invoked_at, last_success, prior_success,
                   test_result, retry>>
    /\ UNCHANGED <<delVars, userVars>>

\* lines 126-127: a request enters the handler and reads the clock
GateBegin(p) ==
    /\ gpc[p] = "idle"
    /\ gpc' = [gpc EXCEPT ![p] = "load"]
    /\ curr_time' = [curr_time EXCEPT ![p] = now]
    /\ call_time' = [call_time EXCEPT ![p] = now]
    /\ last_check' = [last_check EXCEPT ![p] = NoRecord]
    /\ invoked_at' = [invoked_at EXCEPT ![p] = NoRecord]
    /\ gate_resp' = [gate_resp EXCEPT ![p] = NoResp]
    /\ prior_success' = [prior_success EXCEPT ![p] = last_success]
    /\ test_result' = [test_result EXCEPT ![p] = "none"]
    /\ retry' = [retry EXCEPT ![p] =
                   IF gate_resp[p].status \in {400, 404} THEN last_check[p] ELSE NoRetry]
    /\ UNCHANGED <<now, kv_store, check_freq_sec, last_success>>
    /\ UNCHANGED <<delVars, userVars>>

\* lines 128-137: load the record, return early inside the cooldown
GateLoad(p) ==
    /\ gpc[p] = "load"
    /\ last_check' = [last_check EXCEPT ![p] = kv_store]
    /\ IF ShouldSkip(p, kv_store)
       THEN /\ gpc' = [gpc EXCEPT ![p] = "idle"]
            /\ gate_resp' = [gate_resp EXCEPT ![p] = [status |-> 200, detail |-> ""]]
       ELSE /\ gpc' = [gpc EXCEPT ![p] = "get_llm"]
            /\ UNCHANGED gate_resp
    /\ UNCHANGED <<now, kv_store, check_freq_sec, curr_time, call_time,
                   invoked_at, last_success, prior_success, test_result, retry>>
    /\ UNCHANGED <<delVars, userVars>>

\* lines 139-142: get_default_llm(timeout=10), ValueError -> 404
GateGetLLM(p) ==
    /\ gpc[p] = "get_llm"
    /\ invoked_at' = [invoked_at EXCEPT ![p] = now]
    /\ \E configured \in BOOLEAN :
         IF configured
         THEN /\ gpc' = [gpc EXCEPT ![p] = "test_llm"]
              /\ UNCHANGED <<gate_resp, test_result>>
         ELSE /\ gpc' = [gpc EXCEPT ![p] = "idle"]
              /\ test_result' = [test_result EXCEPT ![p] = "ValueError"]
              /\ gate_resp' = [gate_resp EXCEPT ![p] =
                                 [status |-> 404, detail |-> "LLM not setup"]]
    /\ UNCHANGED <<now, kv_store, check_freq_sec, curr_time, last_check,
                   call_time, last_success, prior_success, retry>>
    /\ UNCHANGED <<delVars, userVars>>

\* lines 144-146: test_llm(llm), an error message -> 400
GateTestLLM(p) ==
    /\ gpc[p] = "test_llm"
    /\ \E error \in LLMErrors \cup {NoError} :
         /\ test_result' = [test_result EXCEPT ![p] =
                              IF error = NoError THEN "passed" ELSE error]
         /\ IF TestFailed(error)
            THEN /\ gpc' = [gpc EXCEPT ![p] = "idle"]
                 /\ gate_resp' = [gate_resp EXCEPT ![p] = [status |-> 400, detail |-> error]]
            ELSE /\ gpc' = [gpc EXCEPT ![p] = "mark"]
                 /\ UNCHANGED gate_resp
    /\ UNCHANGED <<now, kv_store, check_freq_sec, curr_time, last_check,
                   call_time, invoked_at, last_success, prior_success, retry>>
    /\ UNCHANGED <<delVars, userVars>>

\* line 149: curr_time is read again once the validation has succeeded
GateMark(p) ==
    /\ gpc[p] = "mark"
    /\ curr_time' = [curr_time EXCEPT ![p] = now]
    /\ gpc' = [gpc EXCEPT ![p] = "store"]
    /\ UNCHANGED <<now, kv_store, check_freq_sec, last_check, gate_resp,
                   call_time, invoked_at, last_success, prior_success,
                   test_result, retry>>
    /\ UNCHANGED <<delVars, userVars>>

\* line 150: kv_store.store(GEN_AI_KEY_CHECK_TIME, curr_time.timestamp())
GateStore(p) ==
    /\ gpc[p] = "store"
    /\ kv_store' = MarkedValue(p)
    /\ last_success' = Max(last_success, MarkedValue(p))
    /\ gpc' = [gpc EXCEPT ![p] = "idle"]
    /\ gate_resp' = [gate_resp EXCEPT ![p] = [status |-> 200, detail |-> ""]]
    /\ UNCHANGED <<now, check_freq_sec, curr_time, last_check, call_time,
                   invoked_at, prior_success, test_result, retry>>
    /\ UNCHANGED <<delVars, userVars>>

validate_existing_genai_api_key(p) ==
    \/ GateBegin(p)
    \/ GateLoad(p)
    \/ GateGetLLM(p)
    \/ GateTestLLM(p)
    \/ GateMark(p)
    \/ GateStore(p)

\* ------------------------------------------------ deletion admission
Connectors == {1, 2}
Credentials == {1, 2}
FileNames == {"a.pdf", "b.pdf"}
FILE == "file"
Sources == {FILE, "web"}
NoPair == [connector_id |-> 0, credential_id |-> 0, source |-> "", file_locations |-> <<>>]
NoReason == "None"
Reasons == {"", "deletion already in progress"}
AttemptStates == {"in_progress", "canceled"}

FileLists == UNION {[1..n -> FileNames] : n \in 0..MaxFiles}

\* what get_connector_credential_pair may return for the identifier: None, a
\* file connector with any list of file locations, or a connector of another
\* source (whose configuration may happen to carry a file_locations entry)
LookupResults(cid, crid) ==
    {NoPair} \cup
    {[connector_id |-> cid, credential_id |-> crid, source |-> FILE, file_locations |-> fl] :
        fl \in FileLists} \cup
    {[connector_id |-> cid, credential_id |-> crid, source |-> s, file_locations |-> fl] :
        s \in Sources \ {FILE}, fl \in {<<>>, <<"a.pdf">>}}

\* the returned reason never acted upon
TruthyNever(reason) == FALSE

\* Python truthiness of the str | None returned by check_deletion_attempt_is_allowed
Truthy(reason) == reason \notin {NoReason, ""}

\* cancel_indexing_attempts_for_connector(connector_id, include_secondary_index)
CancelAttempts(attempts, cid, include_secondary_index) ==
    [attempts EXCEPT ![cid] =
        [primary |-> "canceled",
         secondary |-> IF include_secondary_index THEN "canceled" ELSE @.secondary]]

\* the None check left out
PairMissingNever(found) == FALSE

\* line 169: if cc_pair is None
PairMissing(found) == found = NoPair

\* the cancellation restricted to the primary index
CancelArgsPrimaryOnly(req) == <<req.connector_id, FALSE>>

\* lines 177-179: the arguments of the cancellation
CancelArgs(req) == <<req.connector_id, TRUE>>

\* the submission left out
JobsNotSubmitted(queue, req) == queue

\* lines 191-193: apply_async(kwargs=dict(connector_id=..., credential_id=...))
JobsAfterSubmit(queue, req) == Append(queue, <<req.connector_id, req.credential_id>>)

\* the loop stopping one entry early
MoreFilesShort(pair, idx) == idx + 1 < Len(pair.file_locations)

\* line 198: the loop goes on while file_locations has further entries
MoreFiles(pair, idx) == idx < Len(pair.file_locations)

\* line 195: only file connectors have their files deleted inline
HasFilesToDelete(pair) ==
    pair.source = FILE /\ Len(pair.file_locations) > 0

DelInit ==
    /\ dpc = "idle"
    /\ del_req = [connector_id |-> 0, credential_id |-> 0]
    /\ cc_pair = NoPair
    /\ file_idx = 0
    /\ del_resp = NoResp
    /\ calls = <<>>
    /\ queue_at_start = 0
    /\ policy_reason = NoReason
    /\ index_attempts \in [Connectors -> {[primary |-> "in_progress", secondary |-> s] :
                                              s \in AttemptStates}]
    /\ task_queue = <<>>
    /\ file_store = FileNames

\* lines 161-174: look the pair up, 404 when it is None
DelLookup ==
    /\ dpc = "idle"
    /\ Len(task_queue) < MaxQueue
    /\ \E cid \in Connectors, crid \in Credentials :
         \E found \in LookupResults(cid, crid) :
            /\ del_req' = [connector_id |-> cid, credential_id |-> crid]
            /\ calls' = << <<"get_connector_credential_pair", cid, crid>> >>
            /\ cc_pair' = found
            /\ IF PairMissing(found)
               THEN /\ dpc' = "idle"
                    /\ del_resp' = [status |-> 404, detail |-> "does not exist"]
               ELSE /\ dpc' = "cancel"
                    /\ del_resp' = NoResp
    /\ file_idx' = 0
    /\ queue_at_start' = Len(task_queue)
    /\ policy_reason' = NoReason
    /\ UNCHANGED <<index_attempts, task_queue, file_store>>
    /\ UNCHANGED <<gateVars, userVars>>

\* lines 176-179: cancel any scheduled indexing attempts
DelCancel ==
    /\ dpc = "cancel"
    /\ index_attempts' = CancelAttempts(index_attempts, CancelArgs(del_req)[1],
                                        CancelArgs(del_req)[2])
    /\ calls' = Append(calls, <<"cancel_indexing_attempts_for_connector",
                                CancelArgs(del_req)[1], CancelArgs(del_req)[2]>>)
    /\ dpc' = "check"
    /\ UNCHANGED <<del_req, cc_pair, file_idx, del_resp, queue_at_start,
                   policy_reason, task_queue, file_store>>
    /\ UNCHANGED <<gateVars, userVars>>

\* lines 181-189: ask the admission policy, 400 with its reason on denial
DelCheck ==
    /\ dpc = "check"
    /\ calls' = Append(calls, <<"check_deletion_attempt_is_allowed",
                                cc_pair.connector_id, cc_pair.credential_id>>)
    /\ \E reason \in Reasons \cup {NoReason} :
         /\ policy_reason' = reason
         /\ IF Truthy(reason)
            THEN /\ dpc' = "idle"
                 /\ del_resp' = [status |-> 400, detail |-> reason]
            ELSE /\ dpc' = "enqueue"
                 /\ UNCHANGED del_resp
    /\ UNCHANGED <<del_req, cc_pair, file_idx, queue_at_start, index_attempts,
                   task_queue, file_store>>
    /\ UNCHANGED <<gateVars, userVars>>

\* lines 191-195: submit the cleanup task; a failing submission is not caught
DelEnqueue ==
    /\ dpc = "enqueue"
    /\ calls' = Append(calls, <<"apply_async", del_req.connector_id,
                                del_req.credential_id>>)
    /\ \E accepted \in BOOLEAN :
         IF accepted
         THEN /\ task_queue' = JobsAfterSubmit(task_queue, del_req)
              /\ IF HasFilesToDelete(cc_pair)
                 THEN /\ dpc' = "files"
                      /\ file_idx' = 1
                      /\ UNCHANGED del_resp
                 ELSE /\ dpc' = "idle"
                      /\ del_resp' = [status |-> 200, detail |-> ""]
                      /\ UNCHANGED file_idx
         ELSE /\ dpc' = "idle"
              /\ del_resp' = [status |-> 500, detail |-> "apply_async"]
              /\ UNCHANGED <<task_queue, file_idx>>
    /\ UNCHANGED <<del_req, cc_pair, queue_at_start, policy_reason,
                   index_attempts, file_store>>
    /\ UNCHANGED <<gateVars, userVars>>

\* lines 198-199: one iteration of the loop; a failing delete_file is not caught
DelFile ==
    /\ dpc = "files"
    /\ calls' = Append(calls, <<"delete_file", cc_pair.file_locations[file_idx]>>)
    /\ \E deleted \in BOOLEAN :
         IF deleted
         THEN /\ file_store' = file_store \ {cc_pair.file_locations[file_idx]}
              /\ IF MoreFiles(cc_pair, file_idx)
                 THEN /\ file_idx' = file_idx + 1
                      /\ UNCHANGED <<dpc, del_resp>>
                 ELSE /\ dpc' = "idle"
                      /\ del_resp' = [status |-> 200, detail |-> ""]
                      /\ UNCHANGED file_idx
         ELSE /\ dpc' = "idle"
              /\ del_resp' = [status |-> 500, detail |-> "delete_file"]
              /\ UNCHANGED <<file_store, file_idx>>
    /\ UNCHANGED <<del_req, cc_pair, queue_at_start, policy_reason,
                   index_attempts, task_queue>>
    /\ UNCHANGED <<gateVars, userVars>>

create_deletion_attempt_for_connector_id ==
    \/ DelLookup
    \/ DelCancel
    \/ DelCheck
    \/ DelEnqueue
    \/ DelFile

\* ------------------------------------------------------ user management
Emails == {"admin@x", "bob@x", "eve@x"}
NoUserResp == [op |-> "", caller |-> "", target |-> "", status |-> 0, looked_up |-> FALSE]

\* the self check left out
IsSelfNever(current_email, target_email) == FALSE

\* line 265: current_user.email == user_email.user_email
IsSelf(current_email, target_email) == current_email = target_email

\* get_user_by_email: the row of that email, if any
UserExists(table, email) == table[email] # "absent"

UserInit ==
    /\ users \in [Emails -> {"absent", "active", "inactive"}]
    /\ users["admin@x"] = "active"
    /\ user_resp = NoUserResp

\* lines 259-280
deactivate_user(current_email, target_email) ==
    /\ UNCHANGED <<gateVars, delVars>>
    /\ UserExists(users, current_email)
    /\ IF IsSelf(current_email, target_email)
       THEN /\ user_resp' = [op |-> "deactivate", caller |-> current_email,
                             target |-> target_email, status |-> 400, looked_up |-> FALSE]
            /\ UNCHANGED users
       ELSE IF ~UserExists(users, target_email)
       THEN /\ user_resp' = [op |-> "deactivate", caller |-> current_email,
                             target |-> target_email, status |-> 404, looked_up |-> TRUE]
            /\ UNCHANGED users
       ELSE /\ users' = [users EXCEPT ![target_email] = "inactive"]
            /\ user_resp' = [op |-> "deactivate", caller |-> current_email,
                             target |-> target_email, status |-> 200, looked_up |-> TRUE]

\* lines 283-300
activate_user(target_email) ==
    /\ UNCHANGED <<gateVars, delVars>>
    /\ IF ~UserExists(users, target_email)
       THEN /\ user_resp' = [op |-> "activate", caller |-> "", target |-> target_email,
                             status |-> 404, looked_up |-> TRUE]
            /\ UNCHANGED users
       ELSE /\ users' = [users EXCEPT ![target_email] = "active"]
            /\ user_resp' = [op |-> "activate", caller |-> "", target |-> target_email,
                             status |-> 200, looked_up |-> TRUE]

\* ------------------------------------------------------- specifications
Init == GateInit /\ DelInit /\ UserInit

DelNext == create_deletion_attempt_for_connector_id

UserNext ==
    \/ \E c \in Emails, t \in Emails : deactivate_user(c, t)
    \/ \E t \in Emails : activate_user(t)

GateNext ==
    \/ Tick
    \/ \E p \in Callers : validate_existing_genai_api_key(p)

Next == GateNext \/ DelNext \/ UserNext

Spec == Init /\ [][Next]_vars

\* one fixed initial state of each component, for the specifications that
\* exercise another component
GateStill == GateInit /\ kv_store = NoRecord /\ check_freq_sec = 1
DelStill == DelInit /\ index_attempts = [c \in Connectors |->
                          [primary |-> "in_progress", secondary |-> "in_progress"]]
UserStill == UserInit /\ users = [e \in Emails |-> "active"]

\* the cooldown gate alone
InitGate == GateInit /\ DelStill /\ UserStill
SpecGate == InitGate /\ [][GateNext]_vars

\* the deletion admission controller alone
InitDeletion == GateStill /\ DelInit /\ UserStill
SpecDeletion == InitDeletion /\ [][DelNext]_vars

\* the user endpoints alone
InitUsers == GateStill /\ DelStill /\ UserInit
SpecUsers == InitUsers /\ [][UserNext]_vars

\* ------------------------------------------------------------ cooldown gate
PastLoad(p) ==
    \/ gpc[p] \in {"get_llm", "test_llm", "mark", "store"}
    \/ gpc[p] = "idle" /\ gate_resp[p].status # 0

Invoked(p) == invoked_at[p] # NoRecord

Skipped(p) == gpc[p] = "idle" /\ gate_resp[p].status = 200 /\ ~Invoked(p)

\* the call is at the get_default_llm statement or has executed it
ValidateReached(p) == gpc[p] = "get_llm" \/ Invoked(p)

LoadStep(p) == gpc[p] = "load" /\ gpc'[p] # "load"
MarkStep(p) == gpc[p] = "mark" /\ gpc'[p] = "store"
StoreStep(p) == gpc[p] = "store" /\ gpc'[p] = "idle"
FailStep(p) == gpc[p] \in {"get_llm", "test_llm"} /\ gpc'[p] = "idle"

\* C1: a call that loaded a record with call time - record < check_freq_sec
\* has returned success without get_default_llm / test_llm being invoked; a
\* call that found no record goes on to the validation.
C1_CooldownGate ==
    \A p \in Callers :
        PastLoad(p) =>
            /\ (last_check[p] # NoRecord /\ call_time[p] - last_check[p] < check_freq_sec)
                   => Skipped(p)
            /\ last_check[p] = NoRecord => ValidateReached(p)

C1_Witness ==
    \E p, q \in Callers :
        /\ Skipped(p) /\ last_check[p] # NoRecord
        /\ call_time[p] - last_check[p] = check_freq_sec - 1
        /\ last_check[q] = NoRecord /\ Invoked(q)

\* C2 as stated: the successful call records the time it read on entry, and
\* any later call that begins within check_freq_sec of a timestamp a
\* successful validation recorded returns without validating.
C2_Original ==
    [][\A p \in Callers :
          /\ StoreStep(p) => kv_store' = call_time[p]
          /\ (LoadStep(p) /\ prior_success[p] # NoRecord
                /\ call_time[p] - prior_success[p] < check_freq_sec)
               => gpc'[p] = "idle"]_vars

\* C2 amended: the successful call records the clock value it re-read after
\* the validation passed (no earlier than the invocation of the validation),
\* and a call that loads a record within check_freq_sec of its call time
\* returns success without validating.
C2_RecordedAtCompletion ==
    [][\A p \in Callers :
          /\ MarkStep(p) => curr_time'[p] = now
          /\ StoreStep(p) => (kv_store' = curr_time[p] /\ kv_store' >= invoked_at[p])
          /\ (LoadStep(p) /\ kv_store # NoRecord
                /\ call_time[p] - kv_store < check_freq_sec)
               => (gpc'[p] = "idle" /\ gate_resp'[p].status = 200
                   /\ invoked_at'[p] = NoRecord)]_vars

C2_Witness ==
    \E p, q \in Callers :
        /\ p # q
        /\ gpc[p] = "idle" /\ gate_resp[p].status = 200 /\ Invoked(p)
        /\ curr_time[p] > call_time[p]
        /\ kv_store = curr_time[p]
        /\ Skipped(q) /\ last_check[q] = curr_time[p]
        /\ call_time[q] >= curr_time[p]

\* C7: nothing but its own reading of the record decides whether a call
\* validates: a call that found no record, or an expired one, goes on to the
\* validation whatever the other calls are doing, and its store overwrites
\* whatever record is there by then.
C7_NoMutualExclusion ==
    /\ [](\A p \in Callers :
            (PastLoad(p) /\ (last_check[p] = NoRecord
                             \/ call_time[p] - last_check[p] >= check_freq_sec))
                => ValidateReached(p))
    /\ [][\A p \in Callers :
            (StoreStep(p) /\ kv_store # last_check[p]) => kv_store' = curr_time[p]]_vars

\* two calls validated less than check_freq_sec apart, both passed and both
\* wrote; the record is the one the last writer stored
C7_Witness ==
    \E p, q \in Callers :
        /\ p # q
        /\ gpc[p] = "idle" /\ gate_resp[p].status = 200 /\ test_result[p] = "passed"
        /\ gpc[q] = "idle" /\ gate_resp[q].status = 200 /\ test_result[q] = "passed"
        /\ invoked_at[p] <= invoked_at[q]
        /\ invoked_at[q] - invoked_at[p] < check_freq_sec
        /\ kv_store = curr_time[q] /\ curr_time[q] # curr_time[p]

\* C9 as stated: only a call whose validation passed writes the record, and
\* the call that follows a failed one validates again.
C9_Original ==
    \A p \in Callers :
        /\ gpc[p] \in {"mark", "store"} => test_result[p] = "passed"
        /\ (PastLoad(p) /\ retry[p] # NoRetry) => ValidateReached(p)

\* C9 amended: a failing validation answers 404 (LLM not set up) or 400 (the
\* error of test_llm) and leaves the record as it is, the record changes only
\* in the store of a call whose validation passed, and the call that follows
\* a failed one validates again when it loads the record the failed call
\* had loaded.
C9_FailureKeepsRecord ==
    /\ [][/\ \A p \in Callers :
               FailStep(p) =>
                  /\ kv_store' = kv_store
                  /\ IF gpc[p] = "get_llm"
                     THEN gate_resp'[p] = [status |-> 404, detail |-> "LLM not setup"]
                     ELSE /\ gate_resp'[p].status = 400
                          /\ gate_resp'[p].detail \in LLMErrors
                          /\ gate_resp'[p].detail = test_result'[p]
          /\ kv_store' # kv_store =>
               \E p \in Callers : StoreStep(p) /\ test_result[p] = "passed"]_vars
    /\ [](\A p \in Callers :
            (PastLoad(p) /\ retry[p] # NoRetry /\ last_check[p] = retry[p])
                => ValidateReached(p))

C9_Witness ==
    \E p \in Callers :
        /\ retry[p] = NoRecord /\ last_check[p] = NoRecord
        /\ Invoked(p) /\ kv_store = NoRecord
        /\ gate_resp[p].status = 400

\* ------------------------------------------------------ deletion admission
Count(op) == Cardinality({i \in 1..Len(calls) : calls[i][1] = op})

Job == <<del_req.connector_id, del_req.credential_id>>

Denied == policy_reason \notin {NoReason, ""}

Admitted == Count("check_deletion_attempt_is_allowed") = 1 /\ dpc # "check" /\ ~Denied

\* the delete_file calls the request has made, in order
DeleteCalls == SelectSeq(calls, LAMBDA c : c[1] = "delete_file")

FilesPrefix(n) == [i \in 1..n |-> <<"delete_file", cc_pair.file_locations[i]>>]

\* C3: a request whose pair lookup returns None answers 404 having called
\* neither the admission policy nor apply_async (nor anything else), and the
\* task queue is as it was.
C3_NotFound ==
    /\ del_resp.status = 404 =>
          /\ cc_pair = NoPair /\ dpc = "idle"
          /\ calls = << <<"get_connector_credential_pair",
                          del_req.connector_id, del_req.credential_id>> >>
          /\ Len(task_queue) = queue_at_start
    /\ (calls # <<>> /\ cc_pair = NoPair) =>
          /\ del_resp.status = 404
          /\ Count("check_deletion_attempt_is_allowed") = 0
          /\ Count("apply_async") = 0

C3_Witness == del_resp.status = 404 /\ cc_pair = NoPair

\* C4: for an existing pair the second collaborator call is the cancellation
\* for the request's connector with include_secondary_index = TRUE, the
\* admission policy is only consulted after it, and from then on, denial
\* included, the connector's attempts on both indices stay canceled.
C4_CancelBeforeAdmission ==
    (calls # <<>> /\ cc_pair # NoPair /\ dpc # "cancel") =>
        /\ Len(calls) >= 2
        /\ calls[2] = <<"cancel_indexing_attempts_for_connector",
                        del_req.connector_id, TRUE>>
        /\ \A i \in 1..Len(calls) :
              calls[i][1] = "check_deletion_attempt_is_allowed" => i > 2
        /\ index_attempts[del_req.connector_id] =
              [primary |-> "canceled", secondary |-> "canceled"]
        /\ dpc = "idle" => Count("check_deletion_attempt_is_allowed") = 1

C4_Witness ==
    /\ del_resp.status = 400
    /\ index_attempts[del_req.connector_id] =
          [primary |-> "canceled", secondary |-> "canceled"]
    /\ \E c \in Connectors : index_attempts[c].secondary = "in_progress"

\* C5: when the admission policy returns a non-empty reason the request ends
\* with 400 carrying that reason, with no apply_async call, no delete_file
\* call and the task queue as it was; 400 is answered in no other case.
C5_DeniedNoCleanup ==
    /\ Denied =>
          /\ dpc = "idle"
          /\ del_resp = [status |-> 400, detail |-> policy_reason]
          /\ Count("apply_async") = 0
          /\ Count("delete_file") = 0
          /\ Len(task_queue) = queue_at_start
          /\ calls[Len(calls)][1] = "check_deletion_attempt_is_allowed"
    /\ del_resp.status = 400 => Denied

C5_Witness ==
    /\ del_resp = [status |-> 400, detail |-> "deletion already in progress"]
    /\ cc_pair.source = FILE /\ Len(cc_pair.file_locations) > 0
    /\ file_store = FileNames

\* C6: an admitted request calls apply_async exactly once, with the
\* request's connector_id and credential_id, and when it reports success the
\* job is the one new entry of the task queue and the delete_file calls are
\* exactly one per entry of file_locations, in order, for a file connector
\* and none for any other source.
C6_AdmittedCleanup ==
    /\ (Admitted /\ dpc # "enqueue") =>
          /\ Count("apply_async") = 1
          /\ calls[4] = <<"apply_async", cc_pair.connector_id, cc_pair.credential_id>>
          /\ Job = <<cc_pair.connector_id, cc_pair.credential_id>>
    /\ del_resp.status = 200 =>
          /\ Admitted /\ dpc = "idle"
          /\ Len(task_queue) = queue_at_start + 1
          /\ task_queue[Len(task_queue)] = Job
          /\ DeleteCalls = FilesPrefix(IF cc_pair.source = FILE
                                       THEN Len(cc_pair.file_locations) ELSE 0)
          /\ Len(calls) = 4 + Len(DeleteCalls)

C6_Witness ==
    /\ del_resp.status = 200
    /\ cc_pair.source = FILE
    /\ cc_pair.file_locations = <<"a.pdf", "b.pdf">>
    /\ Count("delete_file") = 2
    /\ file_store = {}

\* C8: every delete_file call comes after the apply_async call, and when a
\* delete_file fails the request ends with an error instead of success, the
\* delete_file calls made are those for the entries up to the failing one and
\* none for the later entries, and the job is still the new entry of the
\* task queue.
C8_PartialFileFailure ==
    /\ \A j \in 1..Len(calls) :
          calls[j][1] = "delete_file" =>
              /\ j > 4
              /\ calls[4] = <<"apply_async", del_req.connector_id, del_req.credential_id>>
              /\ Len(task_queue) = queue_at_start + 1
    /\ del_resp = [status |-> 500, detail |-> "delete_file"] =>
          /\ dpc = "idle"
          /\ cc_pair.source = FILE
          /\ file_idx \in 1..Len(cc_pair.file_locations)
          /\ DeleteCalls = FilesPrefix(file_idx)
          /\ Len(task_queue) = queue_at_start + 1
          /\ task_queue[Len(task_queue)] = Job

C8_Witness ==
    /\ del_resp = [status |-> 500, detail |-> "delete_file"]
    /\ cc_pair.file_locations = <<"a.pdf", "b.pdf", "a.pdf">>
    /\ file_idx = 2
    /\ file_store = {"b.pdf"}
    /\ Len(task_queue) = queue_at_start + 1

\* ---------------------------------------------------------- user management
\* C10: deactivate_user by a caller for its own email answers 400 without a
\* lookup and changes no user; for an unknown email it answers 404 and
\* changes no user; otherwise the target, and only the target, ends up
\* inactive, whether or not it was inactive already.
C10_DeactivateFrame ==
    [][\A c \in Emails, t \in Emails :
          deactivate_user(c, t) =>
              /\ user_resp'.op = "deactivate"
              /\ IF c = t
                 THEN /\ user_resp'.status = 400 /\ ~user_resp'.looked_up
                      /\ users' = users
                 ELSE IF users[t] = "absent"
                 THEN user_resp'.status = 404 /\ users' = users
                 ELSE /\ user_resp'.status = 200
                      /\ users'[t] = "inactive"
                      /\ \A e \in Emails \ {t} : users'[e] = users[e]
              /\ users'[c] = users[c]]_vars

C10_Witness ==
    /\ user_resp.op = "deactivate" /\ user_resp.status = 400
    /\ user_resp.caller = user_resp.target
    /\ users[user_resp.caller] = "active"
    /\ \E e \in Emails : users[e] = "inactive"
====
